---- MODULE Spec2Model ----
(***************************************************************************)
(* Task tracker: the persistence-and-mutation layer of operations.py and   *)
(* the Task entity of models.py.  Every operation is one load-mutate-save  *)
(* cycle on the single resource TASKS_FILE; the model keeps the content of *)
(* that resource, the last call made on the store and what it returned.    *)
(* SpecMenu adds the menu loop of main.py, SpecRace two processes whose    *)
(* loads and saves interleave on the resource.                             *)
(***************************************************************************)
EXTENDS Integers, Sequences, FiniteSets, TLC

\* ---------------------------------------------------------------- bounds
\* Longest collection the model builds or starts from.
MaxTasks == 2
\* Largest id the model assigns, starts from or passes as an argument.
MaxId == 3

\* ---------------------------------------------------------------- inputs
\* (title, description) pairs passed to add_task and update_task.  The core
\* does not validate them, so an empty description is among them.
TaskTexts == {<<"Buy milk", "">>, <<"Call Bob", "today">>}
\* The closed set of statuses (models.py docstring, main.py choices).
Statuses == {"todo", "in_progress", "done"}
\* Filter values given to list_tasks; "urgent" is one the code does not know.
Filters == {"all", "done", "not_done", "in_progress", "urgent"}
IdInputs == 1..MaxId
\* The processes of the race: two command-line invocations.
Procs == {"p1", "p2"}

\* Python's None, what dict.get returns for a missing key.
None == "None"

VARIABLES
    file,      \* content of TASKS_FILE: [kind, data]
    call,      \* the last operation called on the store, with its arguments
    ret,       \* what that call returned: [kind, value]
    deleted,   \* history: ids of the tasks delete_task has removed so far
    menu,      \* how the program runs: one command per process ("cli"), or
               \* the menu loop of interactive_mode: "running", "ended", "crashed"
    procs      \* two command-line processes racing on the resource, each at
               \* its own place in load_tasks / save_tasks

vars == <<file, call, ret, deleted, menu, procs>>

\* ---------------------------------------------------------------- entity
\* Task.__init__
Task(task_id, title, description, status) ==
    [id |-> task_id, title |-> title, description |-> description, status |-> status]

\* dict.get(key, default)
Get(d, key, default) == IF key \in DOMAIN d THEN d[key] ELSE default

\* Variant of to_dict: the record is written without its "status" key.
to_dict_no_status(task) ==
    [id |-> task.id, title |-> task.title, description |-> task.description]

\* Task.to_dict
to_dict(task) ==
    [id |-> task.id, title |-> task.title,
     description |-> task.description, status |-> task.status]

\* Task.from_dict
from_dict(task_dict) ==
    Task(Get(task_dict, "id", None), Get(task_dict, "title", None),
         Get(task_dict, "description", None), Get(task_dict, "status", "todo"))

\* ---------------------------------------------------------------- resource
AbsentFile == [kind |-> "absent", data |-> <<>>]
\* Content json.load rejects with JSONDecodeError.
CorruptFile == [kind |-> "corrupt", data |-> <<>>]
\* Bytes that are not UTF-8 text (a character cut in two, for one): reading
\* them raises UnicodeDecodeError, which is no JSONDecodeError.
UndecodableFile == [kind |-> "undecodable", data |-> <<>>]
JsonFile(data) == [kind |-> "json", data |-> data]

\* The exception load_tasks lets through, "none" when it returns.
load_error(f) ==
    IF f.kind = "undecodable" THEN "UnicodeDecodeError" ELSE "none"

\* load_tasks: the list it returns (None where load_error says it raises)
load_tasks(f) ==
    IF f.kind = "absent" THEN <<>>
    ELSE IF f.kind = "json" THEN [i \in 1..Len(f.data) |-> from_dict(f.data[i])]
    ELSE IF f.kind = "corrupt" THEN <<>>
    ELSE None

\* save_tasks: the content of the resource after the write
save_tasks(tasks) == JsonFile([i \in 1..Len(tasks) |-> to_dict(tasks[i])])

\* ---------------------------------------------------------------- store
\* Variant of max_id: the id of the last task stands for the maximum.
max_id_of_last(tasks, i, best) == tasks[Len(tasks)].id

\* max(task.id for task in tasks): the running maximum over tasks[i..]
RECURSIVE max_id(_, _, _)
max_id(tasks, i, best) ==
    IF i > Len(tasks) THEN best
    ELSE max_id(tasks, i + 1, IF tasks[i].id > best THEN tasks[i].id ELSE best)

\* Variant of get_new_task_id: the id is derived from the number of tasks.
get_new_task_id_by_count(tasks) == Len(tasks) + 1

\* Variant of get_new_task_id: the smallest positive id not in use.
get_new_task_id_first_free(tasks) ==
    CHOOSE n \in 1..(Len(tasks) + 1) :
        /\ \A i \in 1..Len(tasks) : tasks[i].id # n
        /\ \A m \in 1..(n - 1) : \E i \in 1..Len(tasks) : tasks[i].id = m

\* get_new_task_id
get_new_task_id(tasks) ==
    IF tasks = <<>> THEN 1
    ELSE max_id(tasks, 2, tasks[1].id) + 1

\* Variant of add_task: the new task is put first instead of last.
add_task_prepend(f, title, description) ==
    LET tasks == load_tasks(f)
        new_task == Task(get_new_task_id(tasks), title, description, "todo")
    IN  [file |-> save_tasks(<<new_task>> \o tasks), ret |-> new_task]

\* add_task: [file, ret]
add_task(f, title, description) ==
    LET tasks == load_tasks(f)
        new_id == get_new_task_id(tasks)
        new_task == Task(new_id, title, description, "todo")
    IN  [file |-> save_tasks(Append(tasks, new_task)), ret |-> new_task]

\* The for/break loop of update_task and mark_task: the index of the first
\* task with the id at or after i, 0 when the loop ends without a match.
RECURSIVE find_first(_, _, _)
find_first(tasks, task_id, i) ==
    IF i > Len(tasks) THEN 0
    ELSE IF tasks[i].id = task_id THEN i
    ELSE find_first(tasks, task_id, i + 1)

\* Variant of update_task: the list is written back whether or not a task
\* matched.
update_task_always_saves(f, task_id, title, description) ==
    LET tasks == load_tasks(f)
        i == find_first(tasks, task_id, 1)
    IN  [file |-> save_tasks(IF i = 0 THEN tasks
                             ELSE [tasks EXCEPT ![i].title = title,
                                                ![i].description = description]),
         ret |-> i # 0]

\* Variant of update_task: the loop has no break, every task with the id is
\* rewritten.
update_task_no_break(f, task_id, title, description) ==
    LET tasks == load_tasks(f)
        rewrite(task) == IF task.id = task_id
                         THEN [task EXCEPT !.title = title, !.description = description]
                         ELSE task
    IN  IF find_first(tasks, task_id, 1) # 0
        THEN [file |-> save_tasks([k \in 1..Len(tasks) |-> rewrite(tasks[k])]),
              ret |-> TRUE]
        ELSE [file |-> f, ret |-> FALSE]

\* update_task: [file, ret]
update_task(f, task_id, title, description) ==
    LET tasks == load_tasks(f)
        i == find_first(tasks, task_id, 1)
        updated == i # 0
    IN  IF updated
        THEN [file |-> save_tasks([tasks EXCEPT ![i].title = title,
                                                ![i].description = description]),
              ret |-> TRUE]
        ELSE [file |-> f, ret |-> FALSE]

\* Variant of delete_task: the shortened list is never written back.
delete_task_no_save(f, task_id) ==
    LET tasks == load_tasks(f)
        keep(task) == task.id # task_id
    IN  [file |-> f, ret |-> Len(SelectSeq(tasks, keep)) # Len(tasks)]

\* Variant of delete_task: only the first task with the id is removed.
delete_task_first_only(f, task_id) ==
    LET tasks == load_tasks(f)
        i == find_first(tasks, task_id, 1)
    IN  IF i = 0
        THEN [file |-> f, ret |-> FALSE]
        ELSE [file |-> save_tasks(SubSeq(tasks, 1, i - 1)
                                  \o SubSeq(tasks, i + 1, Len(tasks))),
              ret |-> TRUE]

\* delete_task: [file, ret]
delete_task(f, task_id) ==
    LET tasks == load_tasks(f)
        keep(task) == task.id # task_id
        updated_tasks == SelectSeq(tasks, keep)
    IN  IF Len(updated_tasks) = Len(tasks)
        THEN [file |-> f, ret |-> FALSE]
        ELSE [file |-> save_tasks(updated_tasks), ret |-> TRUE]

\* Variant of mark_task: a task that already has the status counts as not
\* updated.
mark_task_changed_only(f, task_id, new_status) ==
    LET tasks == load_tasks(f)
        i == find_first(tasks, task_id, 1)
    IN  IF i # 0 /\ tasks[i].status # new_status
        THEN [file |-> save_tasks([tasks EXCEPT ![i].status = new_status]),
              ret |-> TRUE]
        ELSE [file |-> f, ret |-> FALSE]

\* Variant of mark_task: the loop has no break, every task with the id gets
\* the status.
mark_task_no_break(f, task_id, new_status) ==
    LET tasks == load_tasks(f)
        restatus(task) == IF task.id = task_id
                          THEN [task EXCEPT !.status = new_status] ELSE task
    IN  IF find_first(tasks, task_id, 1) # 0
        THEN [file |-> save_tasks([k \in 1..Len(tasks) |-> restatus(tasks[k])]),
              ret |-> TRUE]
        ELSE [file |-> f, ret |-> FALSE]

\* mark_task: [file, ret]
mark_task(f, task_id, new_status) ==
    LET tasks == load_tasks(f)
        i == find_first(tasks, task_id, 1)
        updated == i # 0
    IN  IF updated
        THEN [file |-> save_tasks([tasks EXCEPT ![i].status = new_status]),
              ret |-> TRUE]
        ELSE [file |-> f, ret |-> FALSE]

\* Variant of list_tasks: "not_done" selects the tasks still in "todo".
list_tasks_todo_only(f, filter_by) ==
    LET tasks == load_tasks(f)
        is_done(task) == task.status = "done"
        is_todo(task) == task.status = "todo"
        is_in_progress(task) == task.status = "in_progress"
    IN  IF filter_by = "all" THEN tasks
        ELSE IF filter_by = "done" THEN SelectSeq(tasks, is_done)
        ELSE IF filter_by = "not_done" THEN SelectSeq(tasks, is_todo)
        ELSE IF filter_by = "in_progress" THEN SelectSeq(tasks, is_in_progress)
        ELSE tasks

\* Variant of list_tasks: a filter it does not know selects nothing.
list_tasks_unknown_empty(f, filter_by) ==
    LET tasks == load_tasks(f)
        is_done(task) == task.status = "done"
        is_not_done(task) == task.status # "done"
        is_in_progress(task) == task.status = "in_progress"
    IN  IF filter_by = "all" THEN tasks
        ELSE IF filter_by = "done" THEN SelectSeq(tasks, is_done)
        ELSE IF filter_by = "not_done" THEN SelectSeq(tasks, is_not_done)
        ELSE IF filter_by = "in_progress" THEN SelectSeq(tasks, is_in_progress)
        ELSE <<>>

\* list_tasks: the returned list (the resource is only read)
list_tasks(f, filter_by) ==
    LET tasks == load_tasks(f)
        is_done(task) == task.status = "done"
        is_not_done(task) == task.status # "done"
        is_in_progress(task) == task.status = "in_progress"
    IN  IF filter_by = "all" THEN tasks
        ELSE IF filter_by = "done" THEN SelectSeq(tasks, is_done)
        ELSE IF filter_by = "not_done" THEN SelectSeq(tasks, is_not_done)
        ELSE IF filter_by = "in_progress" THEN SelectSeq(tasks, is_in_progress)
        ELSE tasks

\* ---------------------------------------------------------------- calls
NoCall == [op |-> "none", id |-> 0, title |-> "", description |-> "",
           status |-> "", filter |-> ""]
NoRet == [kind |-> "none", value |-> FALSE]

\* A process that has not taken its command yet: where it is (pc), the call
\* and its result, the list load_tasks gave it (seen), the content it is to
\* write (pending) and how many cells of it are in the file already (pos).
IdleProc == [pc |-> "idle", call |-> NoCall, ret |-> NoRet,
             seen |-> <<>>, pending |-> AbsentFile, pos |-> 0]

\* A command can be given: by a fresh process, or at the menu prompt.
CanCall == menu \in {"cli", "running"}

\* The call c ends in the exception err before anything is written; nothing
\* in main.py catches it, so the process, and with it the menu loop, ends.
Raise(c, err) ==
    /\ file' = file
    /\ call' = c
    /\ ret' = [kind |-> "raise", value |-> err]
    /\ menu' = IF menu = "running" THEN "crashed" ELSE menu
    /\ UNCHANGED <<deleted, procs>>

Add(title, description) ==
    LET c == [NoCall EXCEPT !.op = "add", !.title = title,
                            !.description = description]
    IN  /\ CanCall
        /\ IF load_error(file) # "none" THEN Raise(c, load_error(file))
           ELSE LET r == add_task(file, title, description)
                IN  /\ Len(load_tasks(file)) < MaxTasks
                    /\ r.ret.id <= MaxId
                    /\ file' = r.file
                    /\ call' = c
                    /\ ret' = [kind |-> "task", value |-> r.ret]
                    /\ UNCHANGED <<deleted, menu, procs>>

Update(task_id, title, description) ==
    LET c == [NoCall EXCEPT !.op = "update", !.id = task_id, !.title = title,
                            !.description = description]
    IN  /\ CanCall
        /\ IF load_error(file) # "none" THEN Raise(c, load_error(file))
           ELSE LET r == update_task(file, task_id, title, description)
                IN  /\ file' = r.file
                    /\ call' = c
                    /\ ret' = [kind |-> "bool", value |-> r.ret]
                    /\ UNCHANGED <<deleted, menu, procs>>

Delete(task_id) ==
    LET c == [NoCall EXCEPT !.op = "delete", !.id = task_id]
    IN  /\ CanCall
        /\ IF load_error(file) # "none" THEN Raise(c, load_error(file))
           ELSE LET r == delete_task(file, task_id)
                IN  /\ file' = r.file
                    /\ call' = c
                    /\ ret' = [kind |-> "bool", value |-> r.ret]
                    /\ deleted' = IF r.ret THEN deleted \cup {task_id} ELSE deleted
                    /\ UNCHANGED <<menu, procs>>

Mark(task_id, new_status) ==
    LET c == [NoCall EXCEPT !.op = "mark", !.id = task_id, !.status = new_status]
    IN  /\ CanCall
        /\ IF load_error(file) # "none" THEN Raise(c, load_error(file))
           ELSE LET r == mark_task(file, task_id, new_status)
                IN  /\ file' = r.file
                    /\ call' = c
                    /\ ret' = [kind |-> "bool", value |-> r.ret]
                    /\ UNCHANGED <<deleted, menu, procs>>

List(filter_by) ==
    LET c == [NoCall EXCEPT !.op = "list", !.filter = filter_by]
    IN  /\ CanCall
        /\ IF load_error(file) # "none" THEN Raise(c, load_error(file))
           ELSE /\ file' = file
                /\ call' = c
                /\ ret' = [kind |-> "list", value |-> list_tasks(file, filter_by)]
                /\ UNCHANGED <<deleted, menu, procs>>

AddStep == \E tx \in TaskTexts : Add(tx[1], tx[2])
UpdateStep == \E task_id \in IdInputs, tx \in TaskTexts : Update(task_id, tx[1], tx[2])
DeleteStep == \E task_id \in IdInputs : Delete(task_id)
\* Variant of MarkStep: the status argument is not held to the three choices.
MarkStep_any_status ==
    \E task_id \in IdInputs, new_status \in Statuses \cup {"blocked"} :
        Mark(task_id, new_status)
MarkStep == \E task_id \in IdInputs, new_status \in Statuses : Mark(task_id, new_status)
ListStep == \E filter_by \in Filters : List(filter_by)

\* ---------------------------------------------------------------- Spec
\* The store starts absent or holding the empty list.
Init ==
    /\ file \in {AbsentFile, JsonFile(<<>>)}
    /\ call = NoCall
    /\ ret = NoRet
    /\ deleted = {}
    /\ menu = "cli"
    /\ procs = [p \in Procs |-> IdleProc]

\* One call on the store at a time, by the single sequential caller.
Next == AddStep \/ UpdateStep \/ DeleteStep \/ MarkStep \/ ListStep

Spec == Init /\ [][Next]_vars

\* ---------------------------------------------------------------- SpecAny
\* The operations on whatever the resource may hold when the program starts:
\* absent, text json.load rejects, or any list of records, ids repeated or out of order
\* and "status" keys missing included (the file is plain JSON anyone can edit).
InitTexts == CHOOSE tx \in TaskTexts : tx[2] = ""
InitDicts ==
    {[id |-> i, title |-> InitTexts[1], description |-> InitTexts[2], status |-> s] :
        i \in IdInputs, s \in Statuses}
    \cup {[id |-> i, title |-> InitTexts[1], description |-> InitTexts[2]] :
        i \in IdInputs}
InitData == UNION {[1..n -> InitDicts] : n \in 0..MaxTasks}

\* Nothing is known of what was deleted from such a store before: every id
\* may have been.
InitAny ==
    /\ file \in {AbsentFile, CorruptFile} \cup {JsonFile(d) : d \in InitData}
    /\ call = NoCall
    /\ ret = NoRet
    /\ deleted = IdInputs
    /\ menu = "cli"
    /\ procs = [p \in Procs |-> IdleProc]

SpecAny == InitAny /\ [][Next]_vars

\* ---------------------------------------------------------------- SpecDamaged
\* The operations on a resource that is missing or holds no JSON document:
\* text the parser rejects, or bytes that are no text at all.
InitDamaged ==
    /\ file \in {AbsentFile, CorruptFile, UndecodableFile}
    /\ call = NoCall
    /\ ret = NoRet
    /\ deleted = IdInputs
    /\ menu = "cli"
    /\ procs = [p \in Procs |-> IdleProc]

SpecDamaged == InitDamaged /\ [][Next]_vars

\* ---------------------------------------------------------------- SpecMenu
\* interactive_mode: one round of the menu loop per step.  A round with valid
\* input is one of the store calls above; the rounds below end before any call.
MenuFilters == {"all", "done", "not_done", "in_progress"}
MenuIdChoices == {"2", "3", "4"}

\* A round that is given up: nothing is called, the loop goes on.
Rejected(why) ==
    /\ menu = "running"
    /\ call' = [NoCall EXCEPT !.op = "invalid"]
    /\ ret' = [kind |-> "rejected", value |-> why]
    /\ menu' = "running"
    /\ UNCHANGED <<file, deleted, procs>>

\* Choice 2, 3 or 4 and an id that int() refuses: `continue`.
RejectId == \E choice \in MenuIdChoices : Rejected("id")
\* Choice 4, an integer id, and a status choice other than 1, 2, 3: `continue`.
RejectStatus == Rejected("status")
\* Choice 5 and a filter choice other than 1..4: `continue`.
RejectFilter == Rejected("filter")
\* A choice other than 1..6: the final else, and round again.
RejectChoice == Rejected("choice")

\* Choice 6: break.
Exit ==
    /\ menu = "running"
    /\ call' = [NoCall EXCEPT !.op = "exit"]
    /\ ret' = NoRet
    /\ menu' = "ended"
    /\ UNCHANGED <<file, deleted, procs>>

\* Choice 5 with one of the four filters of the menu.
MenuListStep == \E filter_by \in MenuFilters : List(filter_by)

InitMenu ==
    /\ file \in {AbsentFile, JsonFile(<<>>), CorruptFile, UndecodableFile}
    /\ call = NoCall
    /\ ret = NoRet
    /\ deleted = IdInputs
    /\ menu = "running"
    /\ procs = [p \in Procs |-> IdleProc]

NextMenu ==
    \/ AddStep \/ UpdateStep \/ DeleteStep \/ MarkStep \/ MenuListStep
    \/ RejectId \/ RejectStatus \/ RejectFilter \/ RejectChoice
    \/ Exit

SpecMenu == InitMenu /\ [][NextMenu]_vars

\* ---------------------------------------------------------------- SpecRace
\* Two command-line processes on the same TASKS_FILE.  Nothing locks the
\* file, so the steps of one call (load_tasks, then open("w"), the writes of
\* json.dump and the close of save_tasks) interleave with the other's.
\*
\* The bytes of the file are kept cell by cell: json.dump writes the records
\* one after another and "]" last.  A cell is one record (with the separator
\* before it) or one of the marks.  The i-th record of one writer lies over
\* the i-th record of the other: exactly, when the records are of one byte
\* length, or ending inside it.
End == [mark |-> "]"]
\* What is left of a record another process wrote when a write ends inside
\* one of its multi-byte characters.
Part == [mark |-> "part"]
\* Bytes nobody wrote: the file was truncated below a writer's offset.
Hole == [mark |-> "hole"]
IsMark(cell) == "mark" \in DOMAIN cell

\* The cells of the content f.
cells(f) == IF f.kind = "json" THEN Append(f.data, End) ELSE f.data

\* What a reader makes of the cells: a JSON list when they are records
\* closed by one "]", bytes that do not decode when a character is cut,
\* text the parser rejects otherwise (the empty file included).
parse(raw) ==
    IF \E i \in DOMAIN raw : raw[i] = Part
    THEN [kind |-> "undecodable", data |-> raw]
    ELSE IF /\ raw # <<>>
            /\ raw[Len(raw)] = End
            /\ \A i \in 1..(Len(raw) - 1) : ~IsMark(raw[i])
         THEN JsonFile(SubSeq(raw, 1, Len(raw) - 1))
         ELSE [kind |-> "corrupt", data |-> raw]

\* write(2) of chunk at the writer's own offset pos: what lies beyond the
\* chunk stays (its first record cut inside a character, if cut is TRUE), a
\* gap below the offset reads as zero bytes.
write_at(raw, chunk, pos, cut) ==
    LET n == IF Len(raw) > pos + Len(chunk) THEN Len(raw) ELSE pos + Len(chunk)
    IN  [i \in 1..n |->
            IF i > pos /\ i <= pos + Len(chunk) THEN chunk[i - pos]
            ELSE IF i = pos + Len(chunk) + 1 /\ cut THEN Part
            ELSE IF i <= Len(raw) THEN raw[i]
            ELSE Hole]

\* A write of len cells at pos can end inside a record that is in the file.
CanCut(raw, pos, len) ==
    /\ pos + len + 1 <= Len(raw)
    /\ ~IsMark(raw[pos + len + 1])

\* The commands a process can be started with.  The race is between the
\* loads and the saves of the calls, so one text stands for the new texts of
\* update_task, one status for mark_task and one filter for list_tasks.
RaceTexts == CHOOSE tx \in TaskTexts : tx[2] # ""
RaceCalls ==
    {[NoCall EXCEPT !.op = "add", !.title = tx[1], !.description = tx[2]] :
        tx \in TaskTexts}
    \cup {[NoCall EXCEPT !.op = "update", !.id = i, !.title = RaceTexts[1],
                         !.description = RaceTexts[2]] : i \in IdInputs}
    \cup {[NoCall EXCEPT !.op = "delete", !.id = i] : i \in IdInputs}
    \cup {[NoCall EXCEPT !.op = "mark", !.id = i, !.status = "done"] : i \in IdInputs}
    \cup {[NoCall EXCEPT !.op = "list", !.filter = "all"]}

\* The call c on the content f up to its save_tasks: the content to write,
\* the value to return, and whether save_tasks is reached at all.
Outcome(f, c) ==
    CASE c.op = "add" ->
            LET r == add_task(f, c.title, c.description)
            IN  [file |-> r.file, ret |-> [kind |-> "task", value |-> r.ret],
                 saves |-> TRUE]
      [] c.op = "update" ->
            LET r == update_task(f, c.id, c.title, c.description)
            IN  [file |-> r.file, ret |-> [kind |-> "bool", value |-> r.ret],
                 saves |-> r.ret]
      [] c.op = "delete" ->
            LET r == delete_task(f, c.id)
            IN  [file |-> r.file, ret |-> [kind |-> "bool", value |-> r.ret],
                 saves |-> r.ret]
      [] c.op = "mark" ->
            LET r == mark_task(f, c.id, c.status)
            IN  [file |-> r.file, ret |-> [kind |-> "bool", value |-> r.ret],
                 saves |-> r.ret]
      [] c.op = "list" ->
            [file |-> f, ret |-> [kind |-> "list", value |-> list_tasks(f, c.filter)],
             saves |-> FALSE]

\* Process p takes the command c: load_tasks reads the file as it is now and
\* the call runs up to its save_tasks (or to its end, if it saves nothing or
\* load_tasks raises).
Run(p, c) ==
    /\ menu = "cli"
    /\ procs[p].pc = "idle"
    /\ IF load_error(file) # "none"
       THEN procs' = [procs EXCEPT ![p] =
                [IdleProc EXCEPT !.pc = "done", !.call = c,
                                 !.ret = [kind |-> "raise", value |-> load_error(file)]]]
       ELSE LET r == Outcome(file, c)
            IN  /\ c.op = "add" =>
                    (Len(load_tasks(file)) < MaxTasks /\ r.ret.value.id <= MaxId)
                /\ procs' = [procs EXCEPT ![p] =
                        [pc |-> IF r.saves THEN "save" ELSE "done",
                         call |-> c, ret |-> r.ret,
                         seen |-> load_tasks(file),
                         pending |-> IF r.saves THEN r.file ELSE AbsentFile,
                         pos |-> 0]]
    /\ UNCHANGED <<file, call, ret, deleted, menu>>

\* save_tasks, open(TASKS_FILE, "w"): the file is created or cut to nothing.
Open(p) ==
    /\ procs[p].pc = "save"
    /\ file' = parse(<<>>)
    /\ procs' = [procs EXCEPT ![p].pc = "open"]
    /\ UNCHANGED <<call, ret, deleted, menu>>

\* save_tasks, json.dump: the buffer is full and spills n more cells (the
\* buffer takes whole JSON tokens, so a spill ends between two of them).
Spill(p) ==
    /\ procs[p].pc = "open"
    /\ LET cs == cells(procs[p].pending)
           pos == procs[p].pos
       IN  \E n \in 1..(Len(cs) - pos - 1), cut \in BOOLEAN :
            /\ cut => CanCut(cells(file), pos, n)
            /\ file' = parse(write_at(cells(file), SubSeq(cs, pos + 1, pos + n),
                                      pos, cut))
            /\ procs' = [procs EXCEPT ![p].pos = pos + n]
    /\ UNCHANGED <<call, ret, deleted, menu>>

\* Variant of Close: a process that finds another save finished since it
\* loaded gives its own up (the check the code does not make).
Close_first_wins(p) ==
    /\ procs[p].pc = "open"
    /\ LET cs == cells(procs[p].pending)
           pos == procs[p].pos
       IN  \E cut \in BOOLEAN :
            /\ cut => CanCut(cells(file), pos, Len(cs) - pos)
            /\ file' = IF \E o \in Procs \ {p} :
                            procs[o].pc = "done" /\ procs[o].pending.kind = "json"
                       THEN file
                       ELSE parse(write_at(cells(file), SubSeq(cs, pos + 1, Len(cs)),
                                           pos, cut))
    /\ procs' = [procs EXCEPT ![p].pc = "done", ![p].pos = 0]
    /\ UNCHANGED <<call, ret, deleted, menu>>

\* save_tasks, leaving the with block: the rest of the buffer is written and
\* the file closed; the call returns.
Close(p) ==
    /\ procs[p].pc = "open"
    /\ LET cs == cells(procs[p].pending)
           pos == procs[p].pos
       IN  \E cut \in BOOLEAN :
            /\ cut => CanCut(cells(file), pos, Len(cs) - pos)
            /\ file' = parse(write_at(cells(file), SubSeq(cs, pos + 1, Len(cs)),
                                      pos, cut))
    /\ procs' = [procs EXCEPT ![p].pc = "done", ![p].pos = 0]
    /\ UNCHANGED <<call, ret, deleted, menu>>

RunStep == \E p \in Procs, c \in RaceCalls : Run(p, c)
OpenStep == \E p \in Procs : Open(p)
SpillStep == \E p \in Procs : Spill(p)
CloseStep == \E p \in Procs : Close(p)

\* The race starts on a well-formed store: no file, or the list a run of
\* add_task calls has left, ids 1, 2, ... in order.
RaceData ==
    {[i \in 1..n |-> to_dict(Task(i, InitTexts[1], InitTexts[2], "todo"))] :
        n \in 0..MaxTasks}
InitRace ==
    /\ file \in {AbsentFile} \cup {JsonFile(d) : d \in RaceData}
    /\ call = NoCall
    /\ ret = NoRet
    /\ deleted = {}
    /\ menu = "cli"
    /\ procs = [p \in Procs |-> IdleProc]

NextRace == RunStep \/ OpenStep \/ SpillStep \/ CloseStep

SpecRace == InitRace /\ [][NextRace]_vars

\* ---------------------------------------------------------------- claims
\* What LoadAll returns for the resource as it is now.
Stored == load_tasks(file)
IdsOf(tasks) == {tasks[i].id : i \in DOMAIN tasks}
MaxOf(S) == CHOOSE m \in S : \A x \in S : x <= m
\* NextId as the specification words it.
NextIdOf(tasks) == IF tasks = <<>> THEN 1 ELSE 1 + MaxOf(IdsOf(tasks))
\* The step just taken was an add_task call (only Add sets call.op to "add",
\* and an Add always changes the resource).
Added == call'.op = "add" /\ ret'.kind = "task"
WellFormed(tasks) ==
    \A i, j \in DOMAIN tasks : i # j => tasks[i].id # tasks[j].id

\* C1: starting from an absent or empty store, after any sequence of
\* operations the ids in the persisted collection are pairwise distinct
\* positive integers.
C1_DistinctPositiveIds ==
    file.kind = "json" =>
        \A i, j \in DOMAIN file.data :
            /\ file.data[i]["id"] \in Nat \ {0}
            /\ i # j => file.data[i]["id"] # file.data[j]["id"]

\* An Add that followed a deletion left the longest collection.
C1_Witness ==
    /\ call.op = "add"
    /\ deleted # {}
    /\ file.kind = "json"
    /\ Len(file.data) = MaxTasks

\* C2 as stated: once Delete has removed a task with id n, no later Add
\* assigns id n.
C2_NeverReused == [][Added => ret'.value.id \notin deleted]_vars

\* C2 as amended: an Add assigns a deleted id n only when every task then
\* stored has an id below n; while a task with an id of n or more is stored,
\* n is not assigned again.
C2_NotReusedBelowMax ==
    [][Added =>
        \A n \in deleted :
            (\E id \in IdsOf(Stored) : id >= n) => ret'.value.id # n]_vars

\* An Add passed over a deleted id that lies below a stored one.
C2_Witness ==
    /\ call.op = "add"
    /\ ret.value.id \notin deleted
    /\ \E n \in deleted : n \notin IdsOf(Stored) /\ n < ret.value.id

\* C3 as stated: for a non-empty well-formed collection, deleting the task
\* with the highest id and then adding assigns the id just freed.
C3_ReusesFreedId ==
    (Stored # <<>> /\ WellFormed(Stored)) =>
        \A tx \in TaskTexts :
            LET freed == MaxOf(IdsOf(Stored))
                d == delete_task(file, freed)
                a == add_task(d.file, tx[1], tx[2])
            IN  d.ret /\ a.ret.id = freed

\* C3 as amended: after the task with the highest id is deleted, the next Add
\* assigns 1 + the highest remaining id (1 when nothing remains); that is the
\* freed id exactly when the freed id was 1 or its predecessor is still
\* stored, and a smaller id otherwise.
C3_NextAfterDeletingMax ==
    (Stored # <<>> /\ WellFormed(Stored)) =>
        \A tx \in TaskTexts :
            LET freed == MaxOf(IdsOf(Stored))
                rest == IdsOf(Stored) \ {freed}
                d == delete_task(file, freed)
                a == add_task(d.file, tx[1], tx[2])
            IN  /\ d.ret
                /\ a.ret.id = IF rest = {} THEN 1 ELSE 1 + MaxOf(rest)
                /\ a.ret.id <= freed
                /\ a.ret.id = freed <=> (freed = 1 \/ (freed - 1) \in rest)

\* A deletion left a well-formed collection whose highest id has no
\* predecessor stored: deleting it and adding gives a smaller id.
C3_Witness ==
    /\ call.op = "delete" /\ ret.value
    /\ Stored # <<>> /\ WellFormed(Stored)
    /\ MaxOf(IdsOf(Stored)) > 1
    /\ (MaxOf(IdsOf(Stored)) - 1) \notin IdsOf(Stored)

\* C4: NextId is 1 for the empty collection and otherwise 1 + the maximum id,
\* a function of the collection alone, so greater than every id in it.
C4_NextId ==
    /\ get_new_task_id(Stored) = NextIdOf(Stored)
    /\ \A id \in IdsOf(Stored) : get_new_task_id(Stored) > id
    /\ Stored = <<>> => get_new_task_id(Stored) = 1
    /\ get_new_task_id(<<Task(5, "", "", "todo"), Task(2, "", "", "todo")>>) = 6
    /\ LET store == JsonFile(<<to_dict(Task(3, "", "", "todo")),
                               to_dict(Task(1, "", "", "todo"))>>)
           r == delete_task(store, 3)
       IN  r.ret /\ get_new_task_id(load_tasks(r.file)) = 2
    /\ call.op = "add" =>
           ret.value.id = NextIdOf(SubSeq(Stored, 1, Len(Stored) - 1))

\* A collection whose highest id is not the last one.
C4_Witness ==
    /\ Len(Stored) >= 2
    /\ Stored[1].id > Stored[Len(Stored)].id

\* The k-th smallest member of a set of indices.
Nth(S, k) == CHOOSE i \in S : Cardinality({j \in S : j <= i}) = k
\* The tasks of a sequence at the indices in S, in their order.
Pick(tasks, S) == [k \in 1..Cardinality(S) |-> tasks[Nth(S, k)]]
\* The lowest index at which the id occurs.
FirstOf(tasks, task_id) ==
    CHOOSE i \in DOMAIN tasks :
        tasks[i].id = task_id /\ \A j \in 1..(i - 1) : tasks[j].id # task_id
Updated == call'.op = "update" /\ ret'.kind = "bool"
Deleted == call'.op = "delete" /\ ret'.kind = "bool"

\* C5: Add leaves the collection as it was, in the same order, followed by
\* exactly one new task {NextId, title, description, todo}; it returns that
\* task and List("all") then contains it (id 1 and length 1 on an empty
\* store).
C5_AddAppends ==
    [][Added =>
        LET new == [id |-> NextIdOf(Stored), title |-> call'.title,
                    description |-> call'.description, status |-> "todo"]
            after == list_tasks(file', "all")
        IN  /\ ret'.value = new
            /\ load_tasks(file') = Append(Stored, new)
            /\ after[Len(after)] = new
            /\ \A k \in 1..Len(Stored) : after[k] = Stored[k]
            /\ Stored = <<>> => (new.id = 1 /\ Len(after) = 1)]_vars

\* An Add with a description put a second task behind one whose status had
\* been changed.
C5_Witness ==
    /\ call.op = "add" /\ call.description # ""
    /\ Len(Stored) >= 2
    /\ Stored[1].status # "todo"
    /\ Stored[Len(Stored)] = ret.value

\* C6: Update with an id absent from the collection returns false, performs
\* no save and leaves the resource exactly as it was.
C6_UpdateAbsent ==
    [][(Updated /\ call'.id \notin IdsOf(Stored))
        => (ret'.value = FALSE /\ file' = file)]_vars

\* An Update missed on a resource that a save would have rewritten: one of
\* its records has no "status" key.
C6_Witness ==
    /\ call.op = "update" /\ ~ret.value
    /\ file.kind = "json"
    /\ \E i \in DOMAIN file.data : "status" \notin DOMAIN file.data[i]

C8_UpdateFirstOnly ==
    [][(Updated /\ call'.id \in IdsOf(Stored)) =>
        LET i == FirstOf(Stored, call'.id)
            after == load_tasks(file')
        IN  /\ ret'.value = TRUE
            /\ Len(after) = Len(Stored)
            /\ after[i] = [id |-> Stored[i].id, title |-> call'.title,
                           description |-> call'.description,
                           status |-> Stored[i].status]
            /\ \A j \in DOMAIN Stored : j # i => after[j] = Stored[j]]_vars

\* An Update succeeded where two tasks have the id: the first has the new
\* title, the second has not.
C8_Witness ==
    /\ call.op = "update" /\ ret.value
    /\ \E i, j \in DOMAIN Stored :
        /\ i < j
        /\ Stored[i].id = call.id /\ Stored[j].id = call.id
        /\ Stored[i].title = call.title /\ Stored[j].title # call.title

\* C9: SetStatus is idempotent: applied twice in a row it leaves the same
\* persisted collection and returns the same result as applied once.
C9_MarkIdempotent ==
    \A task_id \in IdInputs, new_status \in Statuses :
        LET once == mark_task(file, task_id, new_status)
            twice == mark_task(once.file, task_id, new_status)
        IN  twice.file = once.file /\ twice.ret = once.ret

\* A SetStatus succeeded; the task now has the status.
C9_Witness ==
    /\ call.op = "mark" /\ ret.value
    /\ call.status # "todo"
    /\ Stored[FirstOf(Stored, call.id)].status = call.status

\* C10: List("done") and List("not_done") partition List("all"): every task
\* of it is in exactly one of the two, neither has a task outside it, and
\* each is a subsequence of it in the stored order.
C10_DonePartition ==
    LET all == list_tasks(file, "all")
        done == list_tasks(file, "done")
        not_done == list_tasks(file, "not_done")
        in_done == {i \in DOMAIN all : all[i].status = "done"}
    IN  /\ all = Stored
        /\ done = Pick(all, in_done)
        /\ not_done = Pick(all, DOMAIN all \ in_done)
        /\ Len(done) + Len(not_done) = Len(all)

\* A List("done") returned some of the stored tasks and not all of them.
C10_Witness ==
    /\ call.op = "list" /\ call.filter = "done"
    /\ ret.value # <<>>
    /\ Len(ret.value) < Len(Stored)

\* The filter values list_tasks tells apart.
KnownFilters == {"all", "done", "not_done", "in_progress"}
RangeOf(tasks) == {tasks[i] : i \in DOMAIN tasks}
Marked == call'.op = "mark" /\ ret'.kind = "bool"
\* The status stored under an id (ids are distinct where this is used).
StatusOf(tasks, task_id) == tasks[FirstOf(tasks, task_id)].status

\* C11: List with a filter other than all, done, not_done, in_progress
\* returns what List("all") returns on the same store, without an error.
C11_UnknownFilterIsAll ==
    /\ \A filter_by \in Filters \ KnownFilters :
           list_tasks(file, filter_by) = list_tasks(file, "all")
    /\ (call.op = "list" /\ call.filter \notin KnownFilters)
           => (ret.kind = "list" /\ ret.value = Stored)

\* A List with an unknown filter returned a collection that List("done")
\* and List("not_done") both cut down.
C11_Witness ==
    /\ call.op = "list" /\ call.filter \notin KnownFilters
    /\ Len(ret.value) >= 2
    /\ list_tasks(file, "done") # ret.value
    /\ list_tasks(file, "not_done") # ret.value

\* C16: SetStatus with a present id returns true and changes only the status
\* of the first task with the id; afterwards that task is in List("done")
\* exactly when the status is done and in List("in_progress") exactly when it
\* is in_progress.  With an absent id it returns false and saves nothing.
C16_MarkFirstOnly ==
    [][Marked =>
        IF call'.id \in IdsOf(Stored)
        THEN LET before == Stored
                 i == FirstOf(before, call'.id)
                 after == load_tasks(file')
             IN  /\ ret'.value = TRUE
                 /\ Len(after) = Len(before)
                 /\ after[i] = [id |-> before[i].id, title |-> before[i].title,
                                description |-> before[i].description,
                                status |-> call'.status]
                 /\ \A j \in DOMAIN before : j # i => after[j] = before[j]
                 /\ after[i] \in RangeOf(list_tasks(file', "done"))
                        <=> call'.status = "done"
                 /\ after[i] \in RangeOf(list_tasks(file', "in_progress"))
                        <=> call'.status = "in_progress"
        ELSE /\ ret'.value = FALSE
             /\ file' = file]_vars

\* A SetStatus succeeded where two tasks have the id: the first has the new
\* status, the second has not.
C16_Witness ==
    /\ call.op = "mark" /\ ret.value
    /\ \E i, j \in DOMAIN Stored :
        /\ i < j
        /\ Stored[i].id = call.id /\ Stored[j].id = call.id
        /\ Stored[i].status = call.status /\ Stored[j].status # call.status

\* C17: from an absent or empty store, every persisted status is one of
\* todo, in_progress, done, and a task has status todo from its creation
\* until its first successful status change: Add creates it with todo, and
\* the status stored under an id changes only in a successful SetStatus of
\* that id, to the status given.
C17_StatusLifecycle ==
    /\ [](file.kind = "json" =>
            \A i \in DOMAIN file.data : file.data[i]["status"] \in Statuses)
    /\ [][file' # file =>
            LET before == Stored
                after == load_tasks(file')
            IN  /\ \A id \in IdsOf(after) \ IdsOf(before) :
                        call'.op = "add" /\ StatusOf(after, id) = "todo"
                /\ \A id \in IdsOf(after) \cap IdsOf(before) :
                        StatusOf(after, id) # StatusOf(before, id)
                            => /\ call'.op = "mark" /\ call'.id = id
                               /\ ret'.value = TRUE
                               /\ StatusOf(after, id) = call'.status]_vars

\* An Update succeeded on a task still in todo while another task is done.
C17_Witness ==
    /\ call.op = "update" /\ ret.value
    /\ StatusOf(Stored, call.id) = "todo"
    /\ \E i \in DOMAIN Stored : Stored[i].status = "done"

\* C18: SaveAll then LoadAll is a round trip: the same tasks, in the same
\* order, with the same four fields; and a save overwrites whatever the
\* resource held, leaving the records of the saved tasks and nothing else.
SavedNow ==
    \/ call.op = "add" /\ ret.kind = "task"
    \/ call.op \in {"update", "delete", "mark"} /\ ret.kind = "bool" /\ ret.value
C18_RoundTrip ==
    /\ load_tasks(save_tasks(Stored)) = Stored
    /\ Len(save_tasks(Stored).data) = Len(Stored)
    /\ SavedNow =>
        /\ file = save_tasks(Stored)
        /\ \A i \in DOMAIN file.data :
            DOMAIN file.data[i] = {"id", "title", "description", "status"}

\* A save wrote two tasks, one of them done and with a description.
C18_Witness ==
    /\ SavedNow
    /\ Len(Stored) >= 2
    /\ \E i \in DOMAIN Stored :
        Stored[i].status = "done" /\ Stored[i].description # ""

\* The resource holds content that cannot be parsed.
Unparsable == file.kind \in {"corrupt", "undecodable"}

\* C12: LoadAll, and so List, on a resource that does not exist or whose
\* content is unparsable returns the empty sequence without raising, and
\* neither creates nor modifies the resource.
C12_LoadNeverRaises ==
    [][(call'.op = "list" /\ (file.kind = "absent" \/ Unparsable))
        => (ret'.kind = "list" /\ ret'.value = <<>> /\ file' = file)]_vars

\* C13: on unparsable content Add succeeds, returns a task with id 1 and
\* leaves the resource holding only that task; Update, Delete and SetStatus
\* return false and leave the content untouched.
C13_SaveDiscardsCorruption ==
    [][Unparsable =>
        /\ call'.op = "add" =>
            /\ ret'.kind = "task" /\ ret'.value.id = 1
            /\ ret'.value = Task(1, call'.title, call'.description, "todo")
            /\ file' = JsonFile(<<to_dict(ret'.value)>>)
        /\ call'.op \in {"update", "delete", "mark"} =>
            /\ ret'.kind = "bool" /\ ret'.value = FALSE
            /\ file' = file]_vars

\* C19: in the interactive menu a non-integer id, an unrecognized status,
\* filter or menu choice invokes no store operation (the resource is
\* unchanged) and control returns to the menu; the menu loop ends only when
\* choice 6 is entered.
C19_MenuRejects ==
    [][/\ call'.op = "invalid" => (file' = file /\ menu' = "running")
       /\ (menu = "running" /\ menu' # "running") => call'.op = "exit"]_vars

\* C14: no partial write is observable: whenever the resource can be read it
\* holds a complete collection (the one before a save or the one after it),
\* never a truncated or partly written one.
C14_NoPartialWrites == file.kind \in {"absent", "json"}

\* Process q is closing its file, and the file holds nothing but cells q
\* itself wrote since its open.
ClosesOwn(q) ==
    LET cs == cells(procs[q].pending)
        now == cells(file)
    IN  /\ procs[q].pc = "open" /\ procs'[q].pc = "done"
        /\ Len(now) <= Len(cs)
        /\ \A i \in 1..procs[q].pos : i <= Len(now) /\ now[i] = cs[i]

\* C15: without locking the later save overwrites the earlier one: what a
\* process leaves in the resource is made of the collection it loaded and of
\* its own call alone, so a save another process finished in between is lost
\* (last writer wins).
C15_LastWriterWins ==
    [][\A q \in Procs : ClosesOwn(q) =>
        /\ file' = procs[q].pending
        /\ file' = Outcome(save_tasks(procs[q].seen), procs[q].call).file
        /\ procs[q].call.op = "add" =>
            load_tasks(file') = Append(procs[q].seen, procs[q].ret.value)]_vars

\* Both processes loaded the same non-empty collection and both saved; the
\* store is the second writer's and the task the first one added is not in it.
C15_Witness ==
    \E p, q \in Procs :
        /\ p # q
        /\ procs[p].pc = "done" /\ procs[q].pc = "done"
        /\ procs[p].call.op = "add" /\ procs[q].call.op \in {"add", "update", "delete", "mark"}
        /\ procs[p].pending.kind = "json" /\ procs[q].pending.kind = "json"
        /\ procs[p].seen = procs[q].seen /\ procs[p].seen # <<>>
        /\ file = procs[q].pending
        /\ \A i \in DOMAIN load_tasks(file) : load_tasks(file)[i] # procs[p].ret.value

\* The ids of the records are pairwise distinct.
DistinctIds(data) ==
    \A i, j \in DOMAIN data : i # j => data[i].id # data[j].id

\* C20: however the loads and saves of two processes interleave on a store
\* that started well-formed, every collection written to the resource has
\* pairwise distinct ids.
C20_RacedIdsDistinct ==
    /\ file.kind = "json" => DistinctIds(file.data)
    /\ \A p \in Procs :
        procs[p].pending.kind = "json" => DistinctIds(procs[p].pending.data)

====
